---- MODULE Spec2Model ----
(***************************************************************************)
(* Model of app.py: the log simulator (simulate_logs), the brute-force     *)
(* detector (detect_bruteforce) and the Streamlit script that keeps the    *)
(* event set in st.session_state and renders the read views.               *)
(*                                                                         *)
(* Time is counted in seconds.  A source address is the tuple of its four  *)
(* octets.  A DataFrame is the sequence of its rows.                       *)
(***************************************************************************)
EXTENDS Integers, Sequences, FiniteSets, TLC

VARIABLES
    session_state,  \* st.session_state: a function whose domain is {} or {"df"}
    widgets,        \* the sidebar's widget values (they persist across reruns)
    gen,            \* st.button("Generate Simulated Logs") of the current run
    pc,             \* the script's position
    rng,            \* the state of the process-wide generator of module random
    clock,          \* datetime.utcnow(), in seconds
    frame,          \* the locals of the running simulate_logs call
    df,             \* the script's local df (line 114)
    ts,             \* the pivoted time series (line 125)
    top_ips,        \* line 137
    suspects,       \* the outcome of detect_bruteforce (line 143)
    latest,         \* the rows of the raw-log table (line 152)
    csv,            \* the text handed to the download button (line 156)
    metrics,        \* the four top metrics (lines 118-121)
    runs,           \* how many script runs the session has started
    hist            \* history: the event sets simulate_logs has returned

vars == <<session_state, widgets, gen, pc, rng, clock, frame, df, ts, top_ips,
          suspects, latest, csv, metrics, runs, hist>>

-----------------------------------------------------------------------------
(* Bounds of the model *)

\* longest event set the detector and the aggregation are given directly
MaxLen == 2
\* those events lie in the minutes 4 .. 4 + MaxTs
MaxTs == 2
\* the detection window slider goes from 1 to MaxWindow (for 1 to 60)
MaxWindow == 2
\* the threshold slider goes from 1 to MaxThreshold (for 1 to 50)
MaxThreshold == 2
\* the duration slider goes from 1 to MaxMinutes (for 10 to 240)
MaxMinutes == 2
\* the rate slider goes from 1 to MaxEvents (for 1 to 200)
MaxEvents == 2
\* the duration and the rate of the first data set and the sliders' initial
\* values (for 60 and 20), and the detection sliders' (for 10 and 10)
DefaultMinutes == 2
DefaultEvents == 1
DefaultWindow == 1
DefaultThreshold == 1
\* script runs of one session
MaxRuns == 4
\* half minutes the wall clock advances during the session
MaxTicks == 1
\* the generator of module random starts in one of the states 0 .. MaxSeed
MaxSeed == 1

\* pd.Grouper(freq="5Min")
BucketWidth == 5

-----------------------------------------------------------------------------
(* Sequences *)

Range(s) == {s[i] : i \in DOMAIN s}

SeqMax(s) == CHOOSE x \in Range(s) : \A y \in Range(s) : y <= x

Column(frm, c) == [i \in DOMAIN frm |-> frm[i][c]]

NoRows == <<>>

-----------------------------------------------------------------------------
(* Events *)

ACCESS == "ACCESS"
AUTH == "AUTH"
SCAN == "SCAN"

\* the type/status pairs simulate_logs draws
Kinds == { <<ACCESS, "OK">>, <<AUTH, "SUCCESS">>, <<AUTH, "FAILED">>,
           <<SCAN, "SUSPICIOUS">> }

Message(typ, service, status, user) == <<typ, service, status, "user=", user>>

Event(t, ip, typ, service, status, user) ==
    [ts |-> t, src_ip |-> ip, type |-> typ, service |-> service,
     status |-> status, user |-> user,
     msg |-> Message(typ, service, status, user)]

-----------------------------------------------------------------------------
(* pandas: Series.value_counts() *)

RECURSIVE Distinct(_)
\* the distinct values of a column, in the order of their first appearance
Distinct(s) ==
    IF s = <<>> THEN <<>>
    ELSE LET d == Distinct(SubSeq(s, 1, Len(s) - 1))
             x == s[Len(s)]
         IN  IF x \in Range(d) THEN d ELSE Append(d, x)

Count(s, x) == Cardinality({i \in DOMAIN s : s[i] = x})

RECURSIVE InsertByCount(_, _)
\* r placed after every row whose count is at least its own
InsertByCount(sorted, r) ==
    IF sorted = <<>> THEN <<r>>
    ELSE IF Head(sorted).n >= r.n
         THEN <<Head(sorted)>> \o InsertByCount(Tail(sorted), r)
         ELSE <<r>> \o sorted

RECURSIVE SortByCount(_)
SortByCount(rows) ==
    IF rows = <<>> THEN <<>>
    ELSE InsertByCount(SortByCount(SubSeq(rows, 1, Len(rows) - 1)),
                       rows[Len(rows)])

\* counts per distinct value, highest count first
value_counts(s) ==
    LET d == Distinct(s)
    IN  SortByCount([i \in DOMAIN d |-> [key |-> d[i], n |-> Count(s, d[i])]])

-----------------------------------------------------------------------------
(* detect_bruteforce, lines 70-87 *)

\* line 79: df["ts"] >= window_start
InWindowStrict(t, window_start) == t > window_start
InWindow(t, window_start) == t >= window_start

\* lines 80-81
IsFailedAuthAnyAuth(ev) == ev.type = AUTH
IsFailedAuth(ev) == ev.type = AUTH /\ ev.status = "FAILED"

\* line 87: suspects["failed_count"] >= threshold
MeetsThresholdExact(failed_count, threshold) == failed_count = threshold
MeetsThreshold(failed_count, threshold) == failed_count >= threshold

\* line 76: the newest timestamp of the whole frame
NowOf(frm) == SeqMax(Column(frm, "ts"))

Returned(rows) == [status |-> "returned", rows |-> rows]
NotCalled == [status |-> "not called"]

detect_bruteforce(frm, window_minutes, threshold) ==
    IF frm = <<>> THEN Returned(NoRows)
    ELSE
      LET now == NowOf(frm)
          window_start == now - 60 * window_minutes
          Keep(ev) == InWindow(ev.ts, window_start) /\ IsFailedAuth(ev)
          sub == SelectSeq(frm, Keep)
      IN  IF sub = <<>> THEN Returned(NoRows)
          ELSE
            LET c == value_counts(Column(sub, "src_ip"))
                all == [i \in DOMAIN c |->
                          [src_ip |-> c[i].key, failed_count |-> c[i].n]]
                Pass(row) == MeetsThreshold(row.failed_count, threshold)
            IN  Returned(SelectSeq(all, Pass))

-----------------------------------------------------------------------------
(* The read views of the script, lines 116-157 *)

\* lines 118-121
Metrics(frm) ==
    LET Suspicious(ev) == ev.status = "SUSPICIOUS"
    IN  [total |-> Len(frm),
         unique_ips |-> Cardinality(Range(Column(frm, "src_ip"))),
         auth_failures |-> Len(SelectSeq(frm, IsFailedAuth)),
         suspicious |-> Len(SelectSeq(frm, Suspicious))]

\* pd.Grouper(freq="5Min"): bins closed and labelled on the left, aligned to
\* midnight, so a timestamp falls in the bin that starts at its floor
BucketOfNearest(t) == ((t + (BucketWidth * 60) \div 2) \div (BucketWidth * 60)) * (BucketWidth * 60)
BucketOf(t) == (t \div (BucketWidth * 60)) * (BucketWidth * 60)

RECURSIVE SortedSeq(_)
\* the elements of a finite set of integers, ascending
SortedSeq(S) ==
    IF S = {} THEN <<>>
    ELSE LET lo == CHOOSE x \in S : \A y \in S : x <= y
         IN  <<lo>> \o SortedSeq(S \ {lo})

\* line 125: groupby([Grouper, "type"]).size() holds the observed (bin, type)
\* pairs only; unstack(fill_value=0) makes one row per bin and one column per
\* type of the frame; line 126 turns the bin into the column "ts"
TimeSeries(frm) ==
    LET size == [k \in {<<BucketOf(frm[i].ts), frm[i].type>> : i \in DOMAIN frm} |->
                   Cardinality({i \in DOMAIN frm :
                                  <<BucketOf(frm[i].ts), frm[i].type>> = k})]
        bins == SortedSeq({k[1] : k \in DOMAIN size})
        types == {k[2] : k \in DOMAIN size}
    IN  [r \in DOMAIN bins |->
           [ts |-> bins[r],
            counts |-> [typ \in types |->
                          IF <<bins[r], typ>> \in DOMAIN size
                          THEN size[<<bins[r], typ>>] ELSE 0]]]

HeadRows(rows, limit) == SubSeq(rows, 1, IF Len(rows) < limit THEN Len(rows) ELSE limit)

\* lines 137-139
TopLimit == 50
TopIps(frm) ==
    LET c == value_counts(Column(frm, "src_ip"))
    IN  HeadRows([i \in DOMAIN c |-> [src_ip |-> c[i].key, count |-> c[i].n]],
                 TopLimit)

RECURSIVE InsertByTs(_, _)
\* ev placed after every row that is at least as new
InsertByTs(sorted, ev) ==
    IF sorted = <<>> THEN <<ev>>
    ELSE IF Head(sorted).ts >= ev.ts
         THEN <<Head(sorted)>> \o InsertByTs(Tail(sorted), ev)
         ELSE <<ev>> \o sorted

RECURSIVE SortNewestFirst(_)
\* sort_values("ts", ascending=False): a new frame, the rows of one timestamp
\* in their original order
SortNewestFirst(frm) ==
    IF frm = <<>> THEN <<>>
    ELSE InsertByTs(SortNewestFirst(SubSeq(frm, 1, Len(frm) - 1)), frm[Len(frm)])

\* line 152
LatestLimit == 500
Latest(frm) == HeadRows(SortNewestFirst(frm), LatestLimit)

\* lines 155-156: to_csv(index=False) writes the header and one line per row
CsvHeader == <<"ts", "src_ip", "type", "service", "status", "user", "msg">>
ToCsv(frm) ==
    <<CsvHeader>> \o [i \in DOMAIN frm |-> [c \in DOMAIN CsvHeader |-> frm[i][CsvHeader[c]]]]

-----------------------------------------------------------------------------
(* Module random: one process-wide generator, never seeded by the program. *)
(* It is a linear congruential generator here; each draw advances it.      *)

RngMod == 8 * 8
RngNext(s) == (25 * s + 59) % RngMod

\* random.random() < num/den, for the state s the draw left
Below(s, num, den) == s * den < num * RngMod
\* random.choice(seq) and random.randint(lo, hi), for the state s the draw left
Choice(s, seq) == seq[((s * Len(seq)) \div RngMod) + 1]
RandInt(s, lo, hi) == lo + (s * (hi - lo + 1)) \div RngMod

-----------------------------------------------------------------------------
(* simulate_logs, lines 15-65 *)

\* line 24
DefaultBruteforceIps == << <<192, 0, 2, 10>>, <<198, 51, 100, 5>>, <<203, 0, 113, 7>> >>
\* lines 26-27
users == <<"alice", "bob", "root", "svc-agent", "charlie", "dave">>
services == <<"ssh", "http", "smtp", "rdp", "db">>

\* line 21: utcnow().replace(second=0, microsecond=0)
TruncateToMinute(c) == c - (c % 60)

\* line 54: t.isoformat() + "Z", and line 64: pd.to_datetime
IsoFormat(t) == <<t \div 60, t % 60, "Z">>
ToDatetime(text) == text[1] * 60 + text[2]

\* line 30
SlotTimeForward(now, minutes, m) == now + 60 * m
SlotTime(now, minutes, m) == now - 60 * (minutes - 1 - m)

\* lines 32-61: one pass of the inner loop, from generator state s0 at time t;
\* gives the line appended and the generator state left behind
OneEvent(s0, t, bruteforce_ips) ==
    LET s1 == RngNext(s0)                              \* line 32
        isAccess == Below(s1, 80, 100)
        isAuth == ~isAccess /\ Below(s1, 92, 100)
        s2 == IF isAuth THEN RngNext(s1) ELSE s1        \* line 39
        typ == IF isAccess THEN ACCESS ELSE IF isAuth THEN AUTH ELSE SCAN
        status == IF isAccess THEN "OK"
                  ELSE IF isAuth
                       THEN (IF Below(s2, 3, 4) THEN "FAILED" ELSE "SUCCESS")
                       ELSE "SUSPICIOUS"
        failed == typ = AUTH /\ status = "FAILED"
        s3 == IF failed THEN RngNext(s2) ELSE s2        \* line 44
        seeded == failed /\ Below(s3, 6, 10)
        a1 == RngNext(s3)
        a2 == RngNext(a1)
        a3 == RngNext(a2)
        a4 == RngNext(a3)
        ip == IF seeded THEN Choice(a1, bruteforce_ips)  \* line 45
              ELSE <<RandInt(a1, 1, 223), RandInt(a2, 0, 255),
                     RandInt(a3, 0, 255), RandInt(a4, 1, 254)>>   \* line 47
        s4 == IF seeded THEN a1 ELSE a4
        s5 == RngNext(s4)                               \* line 49
        s6 == RngNext(s5)                               \* line 50
        user == Choice(s5, users)
        service == Choice(s6, services)
    IN  [line |-> Event(IsoFormat(t), ip, typ, service, status, user),
         rng |-> s6]

NoFrame == [running |-> FALSE]

\* lines 21-27: the call's locals before the loops; None is the empty list
\* here (the script passes "bf_ips or None", never an empty list)
NewFrame(minutes, events_per_min, bruteforce_ips, caller) ==
    [running |-> TRUE, minutes |-> minutes, events_per_min |-> events_per_min,
     bruteforce_ips |-> IF bruteforce_ips = <<>> THEN DefaultBruteforceIps
                        ELSE bruteforce_ips,
     now |-> TruncateToMinute(clock), m |-> 0, e |-> 0, lines |-> <<>>,
     caller |-> caller, rng0 |-> rng, clock0 |-> clock]

\* lines 63-65: the frame of the lines, its column ts parsed
FrameOfLines(lines) == [i \in DOMAIN lines |-> [lines[i] EXCEPT !.ts = ToDatetime(@)]]

-----------------------------------------------------------------------------
(* The Streamlit script, lines 92-157.  Streamlit runs it from the top for *)
(* the session's first page load and again after every widget change, one  *)
(* run at a time per session.  A change that arrives during a run ends     *)
(* that run where the script next calls into st (a widget or an element)   *)
(* and starts the next; simulate_logs and the statements of lines 108-114  *)
(* make no such call, so a run ends in the sidebar (position "init", the   *)
(* session state not touched yet), in one of the views, or by finishing.   *)

\* line 99: the text area's texts, as their comma-separated pieces; the
\* empty tuple is a piece with nothing but white space
DefaultIpsText == << <<192, 0, 2, 10>>, <<198, 51, 100, 5>> >>
IpsTexts == { DefaultIpsText, << <<>> >>, << <<203, 0, 113, 7>>, <<>> >> }

\* line 100
ParseIps(text) == LET NotBlank(piece) == piece # <<>> IN SelectSeq(text, NotBlank)

\* line 109: the first data set's seed addresses
FirstBruteforceIps == << <<192, 0, 2, 10>>, <<198, 51, 100, 5>> >>

DefaultWidgets ==
    [minutes |-> DefaultMinutes, events_per_min |-> DefaultEvents,
     bf_ips_text |-> DefaultIpsText, bf_window |-> DefaultWindow,
     bf_threshold |-> DefaultThreshold]

NoSessionState == [k \in {} |-> <<>>]

ReadPcs == {"metrics", "timeseries", "top", "detect", "latest", "csv"}

Blank ==
    /\ df = <<>> /\ ts = <<>> /\ top_ips = <<>> /\ suspects = NotCalled
    /\ latest = <<>> /\ csv = <<>> /\ metrics = Metrics(<<>>)

Init ==
    /\ session_state = NoSessionState
    /\ widgets = DefaultWidgets
    /\ gen = FALSE
    /\ pc = "init"
    /\ rng \in 0..MaxSeed
    /\ clock = 270
    /\ frame = NoFrame
    /\ Blank
    /\ runs = 1
    /\ hist = <<>>

\* lines 95-105 of the next run: the widgets hold w, the button holds pressed
Rerun(w, pressed) ==
    /\ pc \in {"init", "done"} \cup ReadPcs
    /\ runs < MaxRuns
    /\ runs' = runs + 1
    /\ widgets' = w
    /\ gen' = pressed
    /\ pc' = "init"
    /\ frame' = NoFrame
    /\ df' = <<>> /\ ts' = <<>> /\ top_ips' = <<>> /\ suspects' = NotCalled
    /\ latest' = <<>> /\ csv' = <<>> /\ metrics' = Metrics(<<>>)
    /\ UNCHANGED <<session_state, rng, clock, hist>>

ChangeMinutes ==
    \E v \in (1..MaxMinutes) \ {widgets.minutes} :
        Rerun([widgets EXCEPT !.minutes = v], FALSE)
ChangeEvents ==
    \E v \in (1..MaxEvents) \ {widgets.events_per_min} :
        Rerun([widgets EXCEPT !.events_per_min = v], FALSE)
ChangeIps ==
    \E v \in IpsTexts \ {widgets.bf_ips_text} :
        Rerun([widgets EXCEPT !.bf_ips_text = v], FALSE)
ChangeWindow ==
    \E v \in (1..MaxWindow) \ {widgets.bf_window} :
        Rerun([widgets EXCEPT !.bf_window = v], FALSE)
ChangeThreshold ==
    \E v \in (1..MaxThreshold) \ {widgets.bf_threshold} :
        Rerun([widgets EXCEPT !.bf_threshold = v], FALSE)
PressGenerate == Rerun(widgets, TRUE)

\* the wall clock; the script reads it in simulate_logs only, so it is let
\* advance right before a call
Tick ==
    /\ pc \in {"init", "regen"}
    /\ clock < 270 + 30 * MaxTicks
    /\ clock' = clock + 30
    /\ UNCHANGED <<session_state, widgets, gen, pc, rng, frame, df, ts, top_ips,
                   suspects, latest, csv, metrics, runs, hist>>

\* lines 108-109
InitDataset ==
    /\ pc = "init"
    /\ IF "df" \notin DOMAIN session_state
       THEN /\ frame' = NewFrame(DefaultMinutes, DefaultEvents, FirstBruteforceIps, "init")
            /\ pc' = "sim"
       ELSE /\ pc' = "regen"
            /\ UNCHANGED frame
    /\ UNCHANGED <<session_state, widgets, gen, rng, clock, df, ts, top_ips,
                   suspects, latest, csv, metrics, runs, hist>>

\* lines 111-112
RegenerateAlways ==
    /\ pc = "regen"
    /\ frame' = NewFrame(widgets.minutes, widgets.events_per_min,
                         ParseIps(widgets.bf_ips_text), "regen")
    /\ pc' = "sim"
    /\ UNCHANGED <<session_state, widgets, gen, rng, clock, df, ts, top_ips,
                   suspects, latest, csv, metrics, runs, hist>>
Regenerate ==
    /\ pc = "regen"
    /\ IF gen
       THEN /\ frame' = NewFrame(widgets.minutes, widgets.events_per_min,
                                  ParseIps(widgets.bf_ips_text), "regen")
            /\ pc' = "sim"
       ELSE /\ pc' = "copy"
            /\ UNCHANGED frame
    /\ UNCHANGED <<session_state, widgets, gen, rng, clock, df, ts, top_ips,
                   suspects, latest, csv, metrics, runs, hist>>

\* lines 29-61: one pass of the inner loop
SimEventInPlace ==
    /\ pc = "sim"
    /\ frame.m < frame.minutes
    /\ LET t == SlotTime(frame.now, frame.minutes, frame.m)
           ev == OneEvent(rng, t, frame.bruteforce_ips)
           last == frame.e + 1 = frame.events_per_min
       IN  /\ rng' = ev.rng
           /\ frame' = [frame EXCEPT !.lines = Append(@, ev.line),
                                      !.e = IF last THEN 0 ELSE @ + 1,
                                      !.m = IF last THEN @ + 1 ELSE @]
           /\ session_state' =
                  [k \in {"df"} |->
                     (IF "df" \in DOMAIN session_state THEN session_state.df ELSE <<>>)
                     \o FrameOfLines(<<ev.line>>)]
    /\ UNCHANGED <<widgets, gen, pc, clock, df, ts, top_ips,
                   suspects, latest, csv, metrics, runs, hist>>
SimEvent ==
    /\ pc = "sim"
    /\ frame.m < frame.minutes
    /\ LET t == SlotTime(frame.now, frame.minutes, frame.m)
           ev == OneEvent(rng, t, frame.bruteforce_ips)
           last == frame.e + 1 = frame.events_per_min
       IN  /\ rng' = ev.rng
           /\ frame' = [frame EXCEPT !.lines = Append(@, ev.line),
                                      !.e = IF last THEN 0 ELSE @ + 1,
                                      !.m = IF last THEN @ + 1 ELSE @]
    /\ UNCHANGED <<session_state, widgets, gen, pc, clock, df, ts, top_ips,
                   suspects, latest, csv, metrics, runs, hist>>

\* what hist keeps of a call that returned
CallRecord(f, result) ==
    [minutes |-> f.minutes, events_per_min |-> f.events_per_min,
     bruteforce_ips |-> f.bruteforce_ips, rng0 |-> f.rng0, clock0 |-> f.clock0,
     df |-> result]

\* lines 63-65, and the assignment of line 109 or 112 the call returns into
SimReturn ==
    /\ pc = "sim"
    /\ frame.m = frame.minutes
    /\ LET result == FrameOfLines(frame.lines)
       IN  /\ session_state' = [k \in {"df"} |-> result]
           /\ hist' = (IF Len(hist) < 2 THEN hist ELSE Tail(hist))
                       \o <<CallRecord(frame, result)>>
    /\ pc' = IF frame.caller = "init" THEN "regen" ELSE "copy"
    /\ frame' = NoFrame
    /\ UNCHANGED <<widgets, gen, rng, clock, df, ts, top_ips,
                   suspects, latest, csv, metrics, runs>>

\* line 114
Copy ==
    /\ pc = "copy"
    /\ df' = session_state.df
    /\ pc' = "metrics"
    /\ UNCHANGED <<session_state, widgets, gen, rng, clock, frame, ts, top_ips,
                   suspects, latest, csv, metrics, runs, hist>>

\* lines 116-121
ShowMetrics ==
    /\ pc = "metrics"
    /\ metrics' = Metrics(df)
    /\ pc' = "timeseries"
    /\ UNCHANGED <<session_state, widgets, gen, rng, clock, frame, df, ts, top_ips,
                   suspects, latest, csv, runs, hist>>

\* lines 123-133
ShowTimeSeries ==
    /\ pc = "timeseries"
    /\ ts' = TimeSeries(df)
    /\ pc' = "top"
    /\ UNCHANGED <<session_state, widgets, gen, rng, clock, frame, df, top_ips,
                   suspects, latest, csv, metrics, runs, hist>>

\* lines 135-139
ShowTopIps ==
    /\ pc = "top"
    /\ top_ips' = TopIps(df)
    /\ pc' = "detect"
    /\ UNCHANGED <<session_state, widgets, gen, rng, clock, frame, df, ts,
                   suspects, latest, csv, metrics, runs, hist>>

\* lines 141-148
Detection ==
    /\ pc = "detect"
    /\ suspects' = detect_bruteforce(df, widgets.bf_window, widgets.bf_threshold)
    /\ pc' = "latest"
    /\ UNCHANGED <<session_state, widgets, gen, rng, clock, frame, df, ts, top_ips,
                   latest, csv, metrics, runs, hist>>

\* lines 150-152
ShowLatestInPlace ==
    /\ pc = "latest"
    /\ latest' = Latest(df)
    /\ df' = SortNewestFirst(df)
    /\ session_state' = [k \in {"df"} |-> SortNewestFirst(session_state.df)]
    /\ pc' = "csv"
    /\ UNCHANGED <<widgets, gen, rng, clock, frame, ts, top_ips,
                   suspects, csv, metrics, runs, hist>>
ShowLatest ==
    /\ pc = "latest"
    /\ latest' = Latest(df)
    /\ pc' = "csv"
    /\ UNCHANGED <<session_state, widgets, gen, rng, clock, frame, df, ts, top_ips,
                   suspects, csv, metrics, runs, hist>>

\* lines 154-157
Download ==
    /\ pc = "csv"
    /\ csv' = ToCsv(df)
    /\ pc' = "done"
    /\ UNCHANGED <<session_state, widgets, gen, rng, clock, frame, df, ts, top_ips,
                   suspects, latest, metrics, runs, hist>>

Next ==
    \/ ChangeMinutes \/ ChangeEvents \/ ChangeIps \/ ChangeWindow
    \/ ChangeThreshold \/ PressGenerate \/ Tick
    \/ InitDataset \/ Regenerate \/ SimEvent \/ SimReturn \/ Copy
    \/ ShowMetrics \/ ShowTimeSeries \/ ShowTopIps \/ Detection
    \/ ShowLatest \/ Download

Spec == Init /\ [][Next]_vars

-----------------------------------------------------------------------------
(* The detector and the aggregation on their own: the script stands before *)
(* the view, its df any time-ordered event set of at most MaxLen events.   *)

Addresses == { <<192, 0, 2, 10>>, <<198, 51, 100, 5>> }
Timestamps == { 60 * (4 + k) : k \in 0..MaxTs }

GivenEvents ==
    { Event(t, ip, k[1], "ssh", k[2], "root") :
        t \in Timestamps, ip \in Addresses, k \in Kinds }

EventSets ==
    { E \in UNION { [1..n -> GivenEvents] : n \in 0..MaxLen } :
        \A i \in 1..(Len(E) - 1) : E[i].ts <= E[i + 1].ts }

InitView(E, position, window, threshold) ==
    /\ session_state = [k \in {"df"} |-> E]
    /\ widgets = [DefaultWidgets EXCEPT !.bf_window = window,
                                        !.bf_threshold = threshold]
    /\ gen = FALSE
    /\ pc = position
    /\ rng = 0
    /\ clock = 270
    /\ frame = NoFrame
    /\ df = E /\ ts = <<>> /\ top_ips = <<>> /\ suspects = NotCalled
    /\ latest = <<>> /\ csv = <<>> /\ metrics = Metrics(E)
    /\ runs = 1
    /\ hist = <<>>

\* detect_bruteforce takes any integers: the windows -1 .. MaxWindow and the
\* thresholds 0 .. MaxThreshold are tried
InitDetect ==
    \E E \in EventSets, window \in (0 - 1)..MaxWindow, threshold \in 0..MaxThreshold :
        InitView(E, "detect", window, threshold)

SpecDetect == InitDetect /\ [][Detection]_vars

InitAggregate ==
    \E E \in EventSets : InitView(E, "timeseries", DefaultWindow, DefaultThreshold)

SpecAggregate == InitAggregate /\ [][ShowTimeSeries]_vars

-----------------------------------------------------------------------------
(* Properties of detect_bruteforce, checked under SpecDetect *)

Detected == pc = "latest"

\* the event set E without its i-th event
Remove(E, i) == [j \in 1..(Len(E) - 1) |-> IF j < i THEN E[j] ELSE E[j + 1]]

\* the outcome of a call that fails with the named error
Raised(error) == [status |-> "raised", error |-> error]

\* the failed logins of address ip in E between now - window and now, both
\* ends included, now being the newest timestamp of E
FailuresInWindow(E, ip, window) ==
    LET newest == CHOOSE t \in {E[i].ts : i \in DOMAIN E} :
                      \A i \in DOMAIN E : E[i].ts <= t
    IN  Cardinality({ i \in DOMAIN E :
                        /\ E[i].src_ip = ip
                        /\ E[i].type = "AUTH" /\ E[i].status = "FAILED"
                        /\ newest - 60 * window <= E[i].ts
                        /\ E[i].ts <= newest })

SuspectSet(outcome) == {outcome.rows[i] : i \in DOMAIN outcome.rows}

\* C1: for a window > 0 and a threshold >= 1 the detector returns exactly one
\* suspect per address that has at least threshold failed logins between
\* now - window and now (both ends included, now the newest timestamp of the
\* event set), with failed_count that number, and nobody else.
C1_DetectExact ==
    (Detected /\ widgets.bf_window > 0 /\ widgets.bf_threshold >= 1) =>
        /\ suspects.status = "returned"
        /\ \A i, j \in DOMAIN suspects.rows :
              suspects.rows[i].src_ip = suspects.rows[j].src_ip => i = j
        /\ SuspectSet(suspects) =
              { [src_ip |-> ip, failed_count |-> FailuresInWindow(df, ip, widgets.bf_window)] :
                  ip \in { a \in {df[i].src_ip : i \in DOMAIN df} :
                             FailuresInWindow(df, a, widgets.bf_window)
                                >= widgets.bf_threshold } }

\* a suspect whose count includes a failed login exactly at window_start
C1_Witness ==
    /\ Detected /\ widgets.bf_window > 0 /\ widgets.bf_threshold >= 1
    /\ \E r \in SuspectSet(suspects) : r.failed_count = 2
    /\ df[1].ts = df[2].ts - 60 * widgets.bf_window

\* C2 as stated: events that are not failed logins influence neither the
\* counts nor the window boundary, so taking any one of them out of the event
\* set leaves the suspects and their counts as they are.
C2_OtherEventsNeverInfluence ==
    (Detected /\ widgets.bf_window > 0 /\ widgets.bf_threshold >= 1) =>
        \A i \in DOMAIN df :
            ~(df[i].type = "AUTH" /\ df[i].status = "FAILED") =>
                SuspectSet(detect_bruteforce(Remove(df, i), widgets.bf_window,
                                             widgets.bf_threshold))
                    = SuspectSet(suspects)

NewestTs(E) == CHOOSE t \in {E[i].ts : i \in DOMAIN E} : \A i \in DOMAIN E : E[i].ts <= t

\* C2 amended: events that are not failed logins influence the result through
\* the window boundary only (now is the newest timestamp of all events):
\* taking one of them out leaves the suspects and their counts as they are
\* whenever the newest timestamp of the event set stays the same.
C2_OtherEventsInfluenceOnlyNow ==
    Detected =>
        \A i \in DOMAIN df :
            ( /\ ~(df[i].type = "AUTH" /\ df[i].status = "FAILED")
              /\ Remove(df, i) # <<>>
              /\ NewestTs(Remove(df, i)) = NewestTs(df) ) =>
                SuspectSet(detect_bruteforce(Remove(df, i), widgets.bf_window,
                                             widgets.bf_threshold))
                    = SuspectSet(suspects)

\* a suspect found beside an event of another kind that does not hold the
\* newest timestamp alone
C2_Witness ==
    /\ Detected /\ suspects.rows # <<>>
    /\ \E i \in DOMAIN df :
          /\ ~(df[i].type = "AUTH" /\ df[i].status = "FAILED")
          /\ Remove(df, i) # <<>>
          /\ NewestTs(Remove(df, i)) = NewestTs(df)

\* C3 as stated: a window <= 0 or a threshold < 1 makes the detector fail with
\* InvalidParameter, whatever the event set.
C3_InvalidParametersRaise ==
    (Detected /\ (widgets.bf_window <= 0 \/ widgets.bf_threshold < 1)) =>
        suspects = Raised("InvalidParameter")

\* C5: with the event set and the window fixed, the suspects for threshold + 1
\* are among those for threshold; with the event set and the threshold fixed,
\* a window one minute shorter gives no more suspects.
C5_Monotone ==
    Detected =>
        /\ SuspectSet(detect_bruteforce(df, widgets.bf_window, widgets.bf_threshold + 1))
              \subseteq SuspectSet(suspects)
        /\ Len(detect_bruteforce(df, widgets.bf_window - 1, widgets.bf_threshold).rows)
              <= Len(suspects.rows)

\* two suspects, none left at the next threshold and one at the shorter window
C5_Witness ==
    /\ Detected /\ Len(suspects.rows) = 2
    /\ detect_bruteforce(df, widgets.bf_window, widgets.bf_threshold + 1).rows = <<>>
    /\ Len(detect_bruteforce(df, widgets.bf_window - 1, widgets.bf_threshold).rows) = 1

-----------------------------------------------------------------------------
(* The aggregation, checked under SpecAggregate *)

Aggregated == pc = "top"

TypesOf(E) == {E[i].type : i \in DOMAIN E}

RECURSIVE SumSeq(_)
SumSeq(s) == IF s = <<>> THEN 0 ELSE Head(s) + SumSeq(Tail(s))

\* C6: every event falls in exactly one 5-minute bucket [b, b + 5 min), b the
\* floor of its timestamp to 5 minutes; the rows are the buckets that hold an
\* event, in ascending order; each row has one count per event type of the
\* input, zero where the bucket has no event of the type; for every type the
\* counts add up to the number of events of the type; no events, no rows.
C6_Buckets ==
    Aggregated =>
        /\ (df = <<>>) => (ts = <<>>)
        /\ \A r \in 1..(Len(ts) - 1) : ts[r].ts < ts[r + 1].ts
        /\ \A r \in DOMAIN ts :
              /\ ts[r].ts % 300 = 0
              /\ DOMAIN ts[r].counts = TypesOf(df)
              /\ \A typ \in TypesOf(df) :
                    ts[r].counts[typ] =
                        Cardinality({ i \in DOMAIN df :
                                        /\ df[i].type = typ
                                        /\ ts[r].ts <= df[i].ts
                                        /\ df[i].ts < ts[r].ts + 300 })
              /\ \E typ \in TypesOf(df) : ts[r].counts[typ] > 0
        /\ \A i \in DOMAIN df :
              Cardinality({ r \in DOMAIN ts : /\ ts[r].ts <= df[i].ts
                                              /\ df[i].ts < ts[r].ts + 300 }) = 1
        /\ \A typ \in TypesOf(df) :
              SumSeq([r \in DOMAIN ts |-> ts[r].counts[typ]])
                  = Cardinality({i \in DOMAIN df : df[i].type = typ})

\* two buckets, and a zero filled in
C6_Witness ==
    /\ Aggregated /\ Len(ts) = 2
    /\ \E typ \in TypesOf(df) : ts[1].counts[typ] = 0

-----------------------------------------------------------------------------
(* The session and the generator, checked under Spec *)

Calls == {hist[i] : i \in DOMAIN hist}

\* C4: the stored event set is at every moment a complete set that a call of
\* simulate_logs returned, and so is the set every view of a run works on:
\* the old one or the new one, never a part of one or a mix of the two.
C4_AtomicReplace ==
    /\ "df" \in DOMAIN session_state =>
          \E h \in Calls : /\ session_state.df = h.df
                            /\ Len(h.df) = h.minutes * h.events_per_min
    /\ pc \in ReadPcs \cup {"done"} =>
          \E h \in Calls : /\ df = h.df
                            /\ Len(h.df) = h.minutes * h.events_per_min

\* a view at work after the event set was replaced by another one
C4_Witness ==
    /\ pc \in ReadPcs
    /\ Len(hist) = 2 /\ hist[1].df # hist[2].df
    /\ df = hist[2].df

ReadStep == pc \in ReadPcs /\ pc' \in ReadPcs \cup {"done"}

\* C7: no view changes the stored event set or the copy the views share, and
\* detect_bruteforce called again on the stored set, with the same window and
\* threshold, gives what the run's detection gave.
C7_ReadsDoNotMutate ==
    /\ [][ReadStep => (session_state' = session_state /\ df' = df)]_vars
    /\ [](pc \in {"latest", "csv", "done"} =>
             suspects = detect_bruteforce(session_state.df, widgets.bf_window,
                                          widgets.bf_threshold))

\* all views done, the raw-log table in another order than the stored set,
\* a suspect found
C7_Witness ==
    /\ pc = "done"
    /\ latest # df
    /\ suspects.rows # <<>>
    /\ session_state.df = df

\* C8 as stated: two consecutive calls of the generator with the same
\* duration, rate and seed addresses return identical event sets.
C8_SameArgumentsSameEvents ==
    ( /\ Len(hist) = 2
      /\ hist[1].minutes = hist[2].minutes
      /\ hist[1].events_per_min = hist[2].events_per_min
      /\ hist[1].bruteforce_ips = hist[2].bruteforce_ips ) =>
        hist[1].df = hist[2].df

\* C9: a call returns minutes * events_per_min events, events_per_min in each
\* of the minutes slots, the newest slot the call's clock truncated to the
\* minute and the others the minutes before it, in non-decreasing time
\* order, every event with one of the four type/status pairs.
C9_GeneratorShape ==
    \A h \in Calls :
        LET newest == h.clock0 - (h.clock0 % 60)
        IN  /\ Len(h.df) = h.minutes * h.events_per_min
            /\ \A k \in 0..(h.minutes - 1) :
                  Cardinality({i \in DOMAIN h.df : h.df[i].ts = newest - 60 * k})
                      = h.events_per_min
            /\ \A i \in 1..(Len(h.df) - 1) : h.df[i].ts <= h.df[i + 1].ts
            /\ \A i \in DOMAIN h.df :
                  <<h.df[i].type, h.df[i].status>> \in
                      { <<"ACCESS", "OK">>, <<"AUTH", "SUCCESS">>,
                        <<"AUTH", "FAILED">>, <<"SCAN", "SUSPICIOUS">> }

\* a call for two minutes at two events a minute, made half-way through a minute
C9_Witness ==
    \E h \in Calls : h.minutes = 2 /\ h.events_per_min = 2 /\ h.clock0 % 60 = 30

\* C10: the stored event set is created when the session has none, by the
\* call of line 109; once there it stays there, and it changes only in a run
\* whose generate button was pressed, to the complete result of that run's
\* call of simulate_logs; in a run without the button (one that changes the
\* detection window or threshold, say) it stays as it is and the detector
\* works on the stored events.
C10_SessionLifecycle ==
    /\ [][ /\ "df" \in DOMAIN session_state => "df" \in DOMAIN session_state'
           /\ ("df" \in DOMAIN session_state /\ ~gen) => session_state' = session_state
           /\ session_state' # session_state =>
                 /\ pc = "sim" /\ frame.m = frame.minutes
                 /\ ("df" \notin DOMAIN session_state) <=> (frame.caller = "init")
                 /\ ("df" \in DOMAIN session_state) => gen
                 /\ Len(session_state'.df) = frame.minutes * frame.events_per_min
                 /\ session_state'.df = hist'[Len(hist')].df ]_vars
    /\ [](pc = "detect" => df = session_state.df)

\* the detector at work in a run that changed the threshold only, after an
\* earlier run replaced the event set
C10_Witness ==
    /\ pc = "latest" /\ ~gen
    /\ widgets.bf_threshold # DefaultThreshold
    /\ Len(hist) = 2
    /\ session_state.df = hist[2].df

====
